---- MODULE Spec2Model ----
(***************************************************************************)
(* The mercury sensor fleet: the resources the two stacks of app.py       *)
(* define (SecureBucket, the CodePipeline with its CodeBuild project, the  *)
(* auto scaling group with its cfn-init bootstrap, the Firehose delivery   *)
(* stream) and the behaviour the control plane gives them.                 *)
(***************************************************************************)
EXTENDS Integers, Sequences, FiniteSets, TLC

VARIABLES
    region,         \* env.region of both stacks (CDK_DEFAULT_REGION)
    buckets,        \* the bucket definitions made so far
    lastCall,       \* the last call of SecureBucket and whether it raised
    objects,        \* bucket name -> the object versions stored in it
    ssmParameter,   \* the value of MercurySsmParameter
    runs,           \* the executions of MercuryPipeline
    builds,         \* the builds of mercury-codebuild-arm in flight
    instances,      \* the instances of the auto scaling group, by slot
    desired,        \* the group's desired capacity
    pending,        \* launches the group has requested and not yet placed
    spotAvailable,  \* spot capacity is on offer under max_price
    launchFailed,   \* the last spot request of the group failed
    records,        \* telemetry record -> where it is
    datalake        \* the keys written to the datalake bucket

bucketVars == <<buckets, lastCall>>
buildVars == <<objects, ssmParameter, runs, builds>>
fleetVars == <<instances, desired, pending, spotAvailable, launchFailed>>
hoseVars == <<records, datalake>>
vars == <<region, bucketVars, buildVars, fleetVars, hoseVars>>

None == "None"

(***************************************************************************)
(* Bounds of the model.                                                    *)
(***************************************************************************)
MaxRuns == 2
MaxSlots == 3
HoursPerTick == 12
MaxRecords == 3

Regions == {"us-east-1", "eu-west-1"}
\* what the VERSION file of cisco/mercury may hold at the commit built
Versions == {"2.5.16", "2.5.17"}

(***************************************************************************)
(* lib/aws_common/s3.py                                                    *)
(***************************************************************************)
\* the keyword arguments a caller may try, and the values tried for each
KwargKeys ==
    {"lifecycle_rules", "block_public_access", "encryption", "enforce_ssl",
     "versioned", "removal_policy"}

KwargValues(k) ==
    CASE k = "lifecycle_rules" -> {"ONE_ZONE_INFREQUENT_ACCESS after 30 days", "[]"}
      [] k = "block_public_access" -> {"BLOCK_ACLS"}
      [] k = "encryption" -> {"UNENCRYPTED"}
      [] k = "enforce_ssl" -> {"False"}
      [] k = "versioned" -> {"True", "False"}
      [] k = "removal_policy" -> {"DESTROY"}

\* the keyword arguments SecureBucket itself passes to Bucket.__init__
FixedProps(bucket_id, bucket_name) ==
    [bucket_name |-> IF bucket_name = None THEN bucket_id ELSE bucket_name,
     block_public_access |-> "BLOCK_ALL",
     encryption |-> "S3_MANAGED",
     enforce_ssl |-> "True",
     versioned |-> "True",
     removal_policy |-> "RETAIN"]

\* a plausible slip: the caller's keyword arguments are merged over the defaults
SecureBucketKwargsWin(bucket_id, bucket_name, kwargs) ==
    [ok |-> TRUE, id |-> bucket_id,
     props |-> kwargs @@ FixedProps(bucket_id, bucket_name)]

\* SecureBucket.__init__: a keyword given twice raises TypeError, and the
\* bucket is not defined
SecureBucket(bucket_id, bucket_name, kwargs) ==
    IF DOMAIN kwargs \cap DOMAIN FixedProps(bucket_id, bucket_name) # {}
    THEN [ok |-> FALSE, id |-> bucket_id, props |-> <<>>]
    ELSE [ok |-> TRUE, id |-> bucket_id,
          props |-> FixedProps(bucket_id, bucket_name) @@ kwargs]

(***************************************************************************)
(* lib/stacks/mercury_codebuild.py: buckets                                *)
(***************************************************************************)
build_bucket(bucket_id, bucket_name) ==
    SecureBucket(bucket_id, bucket_name,
                 [k \in {"lifecycle_rules"} |-> "ONE_ZONE_INFREQUENT_ACCESS after 30 days"])

artifacts_bucket == build_bucket("MercuryArtifactBucket", "mercury-codebuild-artifacts")
package_bucket == build_bucket("MercuryPackageBucket", "mercury-package-bucket")

(***************************************************************************)
(* lib/stacks/mercury_stack.py: buckets                                    *)
(***************************************************************************)
name == "Mercury"
build_datalake_bucket == SecureBucket("mercury-collection-datalake", None, <<>>)
datalake_bucket == build_datalake_bucket

\* app.py: MercuryStack(..., artifacts_bucket=codebuild.artifacts_bucket)
stack_artifacts_bucket == artifacts_bucket

AppBuckets == {artifacts_bucket, package_bucket, datalake_bucket}
BucketName(b) == b.props.bucket_name
BucketNames == {BucketName(b) : b \in AppBuckets}

\* ids a further caller of SecureBucket may use
NewBucketIds == {"extra"}
Absent == "<absent>"

(***************************************************************************)
(* lib/stacks/mercury_codebuild.py: the project and the pipeline           *)
(***************************************************************************)
build_spec ==
    [phases |-> <<"install", "build", "post_build">>,
     artifacts |-> [files |-> "*.rpm", discard_paths |-> "yes",
                    name |-> "mercury-package"]]

\* a plausible slip: two builds of the project may run at once
build_projectTwoAtOnce(arch) ==
    [project_name |-> IF arch = "arm" THEN "mercury-codebuild-arm"
                                      ELSE "mercury-codebuild-x86",
     concurrent_build_limit |-> 2,
     build_image |-> IF arch = "arm" THEN "AMAZON_LINUX_2_ARM_2"
                                     ELSE "AMAZON_LINUX_2_4",
     artifacts |-> [bucket |-> BucketName(artifacts_bucket),
                    include_build_id |-> FALSE, package_zip |-> FALSE]]

build_project(arch) ==
    [project_name |-> IF arch = "arm" THEN "mercury-codebuild-arm"
                                      ELSE "mercury-codebuild-x86",
     concurrent_build_limit |-> 1,
     build_image |-> IF arch = "arm" THEN "AMAZON_LINUX_2_ARM_2"
                                     ELSE "AMAZON_LINUX_2_4",
     artifacts |-> [bucket |-> BucketName(artifacts_bucket),
                    include_build_id |-> FALSE, package_zip |-> FALSE]]

project == build_project("arm")

source_output == "SourceArtifact"
build_output == "MercuryBuildArtifact"

source_action ==
    [action_name |-> "GitHub_Source", kind |-> "GitHubSource", trigger |-> "POLL",
     input |-> None, output |-> source_output, bucket |-> None]

build_action ==
    [action_name |-> "CodeBuild", kind |-> "CodeBuild", trigger |-> None,
     input |-> source_output, output |-> build_output, bucket |-> None]

\* a plausible slip: the deploy action is handed the source stage's output
s3_deploy_actionFromSource ==
    [action_name |-> "S3Deploy", kind |-> "S3Deploy", trigger |-> None,
     input |-> source_output, output |-> None,
     bucket |-> BucketName(package_bucket)]

s3_deploy_action ==
    [action_name |-> "S3Deploy", kind |-> "S3Deploy", trigger |-> None,
     input |-> build_output, output |-> None,
     bucket |-> BucketName(package_bucket)]

\* the Pipeline construct after the three add_stage calls
pipeline ==
    [pipeline_name |-> "MercuryPipeline",
     artifact_bucket |-> BucketName(artifacts_bucket),
     stages |-> << [stage_name |-> "Source", action |-> source_action],
                   [stage_name |-> "Build", action |-> build_action],
                   [stage_name |-> "Deploy", action |-> s3_deploy_action] >>]

\* ssm.StringParameter(string_value=build_output.at_path("mercury-1.0.rpm").location):
\* ArtifactPath.location is the reference "<artifact name>::<file name>", fixed
\* when the template is synthesized
ssm_parameter ==
    [parameter_name |-> "MercurySsmParameter",
     string_value |-> <<build_output, "::", "mercury-1.0.rpm">>]

\* grants of the code-build stack: ssm_parameter.grant_write(project)
codebuild_grants ==
    {[principal |-> project.project_name, action |-> "ssm:PutParameter",
      resource |-> ssm_parameter.parameter_name]}

\* the package file ./build_pkg.sh -t rpm leaves for a VERSION on the arm image
RpmFile(v) ==
    CASE v = "2.5.16" -> "mercury-2.5.16-1.el7.aarch64.rpm"
      [] v = "2.5.17" -> "mercury-2.5.17-1.el7.aarch64.rpm"

RunIds == 1..MaxRuns

\* where the pipeline keeps an artifact of an execution in its artifact bucket
ArtifactKey(r, artifact) == <<pipeline.pipeline_name, artifact, ToString(r)>>
ArtifactLocation(r, artifact) ==
    <<pipeline.artifact_bucket>> \o ArtifactKey(r, artifact)

\* the files an artifact of an execution holds
ArtifactFiles(artifact, v) ==
    IF artifact = build_output THEN {<<RpmFile(v)>>} ELSE {<<"VERSION">>}

NewRun ==
    [status |-> "NotStarted", stage |-> 0, version |-> None, artifacts |-> {},
     done |-> <<>>, consumed |-> {}, attempts |-> 0, reason |-> None]

StageOf(r) == pipeline.stages[runs[r].stage]
ActionOf(r) == StageOf(r).action

Running(r, kind) ==
    /\ runs[r].status = "InProgress"
    /\ ActionOf(r).kind = kind

\* one execution holds a stage at a time
StageFree(r, i) ==
    \A q \in RunIds \ {r} : ~(runs[q].status = "InProgress" /\ runs[q].stage = i)

Put(bucket, keys, by) ==
    [objects EXCEPT ![bucket] = @ \cup {[key |-> k, by |-> by] : k \in keys}]

\* the execution record once its current stage's action has succeeded
Advanced(r, run) ==
    LET stepped == [run EXCEPT !.done = Append(@, StageOf(r).stage_name)]
    IN IF run.stage = Len(pipeline.stages)
       THEN [stepped EXCEPT !.status = "Succeeded"]
       ELSE [stepped EXCEPT !.stage = @ + 1]

CanAdvance(r) ==
    runs[r].stage = Len(pipeline.stages) \/ StageFree(r, runs[r].stage + 1)

Failed(run, why) == [run EXCEPT !.status = "Failed", !.reason = why]

\* the source poll finds a change and starts an execution
StartExecution(r) ==
    /\ runs[r].status = "NotStarted"
    /\ \A q \in RunIds : q < r => runs[q].status # "NotStarted"
    /\ StageFree(r, 1)
    /\ runs' = [runs EXCEPT ![r] = [@ EXCEPT !.status = "InProgress", !.stage = 1]]
    /\ UNCHANGED <<region, bucketVars, objects, ssmParameter, builds, fleetVars, hoseVars>>

\* GitHubSourceAction: checks out main and stores the source artifact
RunSource(r, v) ==
    /\ Running(r, "GitHubSource")
    /\ CanAdvance(r)
    /\ runs' = [runs EXCEPT ![r] =
                  Advanced(r, [@ EXCEPT !.version = v,
                                        !.artifacts = @ \cup {ActionOf(r).output}])]
    /\ objects' = Put(pipeline.artifact_bucket, {ArtifactKey(r, ActionOf(r).output)}, r)
    /\ UNCHANGED <<region, bucketVars, ssmParameter, builds, fleetVars, hoseVars>>

\* CodeBuildAction: starts a build of the project on the input artifact; the
\* build service refuses a build over the project's concurrent build limit
RunBuildStart(r) ==
    /\ Running(r, "CodeBuild")
    /\ \A b \in builds : b.run # r
    /\ IF ActionOf(r).input \notin runs[r].artifacts
       THEN /\ runs' = [runs EXCEPT ![r] = Failed(@, "no input artifact")]
            /\ UNCHANGED builds
       ELSE IF Cardinality(builds) >= project.concurrent_build_limit
       THEN /\ runs' = [runs EXCEPT ![r] = Failed(@, "throttled")]
            /\ UNCHANGED builds
       ELSE /\ runs' = [runs EXCEPT ![r] =
                          [@ EXCEPT !.attempts = @ + 1,
                                    !.consumed = @ \cup {<<StageOf(r).stage_name,
                                                           ActionOf(r).input>>}]]
            /\ builds' = builds \cup {[origin |-> "pipeline", run |-> r,
                                       version |-> runs[r].version]}
    /\ UNCHANGED <<region, bucketVars, objects, ssmParameter, fleetVars, hoseVars>>

\* StartBuild on the project itself: its own GitHub source, its own S3 artifacts
StartBuild(v) ==
    /\ Cardinality(builds) < project.concurrent_build_limit
    /\ \A b \in builds : b.origin # "standalone"
    /\ builds' = builds \cup {[origin |-> "standalone", run |-> 0,
                               version |-> v]}
    /\ UNCHANGED <<region, bucketVars, objects, ssmParameter, runs, fleetVars, hoseVars>>

\* install, build and post_build end well: the files matching *.rpm are uploaded under the
\* artifact name, flat, with no build id
BuildSucceedStandalone(b) ==
    /\ b \in builds
    /\ b.origin = "standalone"
    /\ builds' = builds \ {b}
    /\ objects' = Put(project.artifacts.bucket,
                      {<<build_spec.artifacts.name, RpmFile(b.version)>>}, 0)
    /\ UNCHANGED <<region, bucketVars, ssmParameter, runs, fleetVars, hoseVars>>

\* a command of some phase fails: the build stops and uploads nothing
BuildFailStandalone(b) ==
    /\ b \in builds
    /\ b.origin = "standalone"
    /\ builds' = builds \ {b}
    /\ UNCHANGED <<region, bucketVars, objects, ssmParameter, runs, fleetVars, hoseVars>>

\* the pipeline's build ends well: its output artifact is stored for the execution
BuildSucceedPipeline(b) ==
    /\ b \in builds
    /\ b.origin = "pipeline"
    /\ CanAdvance(b.run)
    /\ builds' = builds \ {b}
    /\ objects' = Put(pipeline.artifact_bucket,
                      {ArtifactKey(b.run, ActionOf(b.run).output)}, b.run)
    /\ runs' = [runs EXCEPT ![b.run] =
                  Advanced(b.run, [@ EXCEPT !.artifacts = @ \cup {ActionOf(b.run).output}])]
    /\ UNCHANGED <<region, bucketVars, ssmParameter, fleetVars, hoseVars>>

\* the pipeline's build fails: the action fails and the execution stops
BuildFailPipeline(b) ==
    /\ b \in builds
    /\ b.origin = "pipeline"
    /\ builds' = builds \ {b}
    /\ runs' = [runs EXCEPT ![b.run] = Failed(@, "build failed")]
    /\ UNCHANGED <<region, bucketVars, objects, ssmParameter, fleetVars, hoseVars>>

\* S3DeployAction: extracts the input artifact into its bucket
RunDeploy(r) ==
    /\ Running(r, "S3Deploy")
    /\ CanAdvance(r)
    /\ IF ActionOf(r).input \notin runs[r].artifacts
       THEN /\ runs' = [runs EXCEPT ![r] = Failed(@, "no input artifact")]
            /\ UNCHANGED objects
       ELSE /\ runs' = [runs EXCEPT ![r] =
                          Advanced(r, [@ EXCEPT !.consumed =
                                          @ \cup {<<StageOf(r).stage_name,
                                                    ActionOf(r).input>>}])]
            /\ objects' = Put(ActionOf(r).bucket,
                              ArtifactFiles(ActionOf(r).input, runs[r].version), r)
    /\ UNCHANGED <<region, bucketVars, ssmParameter, builds, fleetVars, hoseVars>>

(***************************************************************************)
(* lib/stacks/mercury_stack.py: the fleet                                  *)
(***************************************************************************)
Duration_days(n) == n * 24      \* in hours

instance_role == "MercuryInstanceRole"
stream_id == "MercurySensorStream"

\* a plausible slip: a larger group
build_asgThreeMax ==
    [min_capacity |-> 1, max_capacity |-> 3,
     max_instance_lifetime |-> Duration_days(1),
     update_policy |-> [kind |-> "rolling_update", min_success_percentage |-> 0],
     signals |-> [kind |-> "wait_for_all", timeout_minutes |-> 15]]

\* a plausible slip: instances kept for two days
build_asgTwoDays ==
    [min_capacity |-> 1, max_capacity |-> 2,
     max_instance_lifetime |-> Duration_days(2),
     update_policy |-> [kind |-> "rolling_update", min_success_percentage |-> 0],
     signals |-> [kind |-> "wait_for_all", timeout_minutes |-> 15]]

build_asg ==
    [min_capacity |-> 1, max_capacity |-> 2,
     max_instance_lifetime |-> Duration_days(1),
     update_policy |-> [kind |-> "rolling_update", min_success_percentage |-> 0],
     signals |-> [kind |-> "wait_for_all", timeout_minutes |-> 15]]

asg == build_asg

launch_template ==
    [instance_type |-> "t4g.micro", spot_options |-> [max_price |-> "0.007"],
     role |-> instance_role, detailed_monitoring |-> FALSE]

\* MercuryStack.__init__: artifacts_bucket.grant_read(self.instance_role) and
\* self.firehose.grant_put_records(self.instance_role)
stack_grants ==
    {[principal |-> instance_role, action |-> "s3:GetObject",
      resource |-> BucketName(stack_artifacts_bucket)],
     [principal |-> instance_role, action |-> "firehose:PutRecord",
      resource |-> stream_id]}

\* a plausible slip: the output section names no stream and no region
fluent_bit_configNoOutput ==
    << <<"[INPUT]">>, <<"Name", "tail">>, <<"tag", "mercury.data">>,
       <<"Path", "/usr/local/var/mercury/fingerprint.json*">>,
       <<"Parser", "json">>,
       <<"[OUTPUT]">>, <<"Name", "kinesis_firehose">>, <<"Match", "mercury.*">> >>

\* the f-string of fluent_bit_config, line by line
fluent_bit_config ==
    << <<"[INPUT]">>, <<"Name", "tail">>, <<"tag", "mercury.data">>,
       <<"Path", "/usr/local/var/mercury/fingerprint.json*">>,
       <<"Parser", "json">>,
       <<"[OUTPUT]">>, <<"Name", "kinesis_firehose">>, <<"Match", "mercury.*">>,
       <<"region", region>>, <<"delivery_stream", stream_id>> >>

fluent_bit_parser ==
    << <<"[PARSER]">>, <<"Name", "json">>, <<"Format", "json">>,
       <<"Time_Key", "event_start">>, <<"Time_Format", "%s.%6\"">> >>

rpm_name == "mercury-2.5.16-1.el7.aarch64.rpm"
rpm_path == <<"mercury-package", rpm_name>>

\* Bucket.s3_url_for_object(key): s3://<bucket name>/<key>
s3_url_for_object(bucket, key) == <<"s3://", BucketName(bucket)>> \o key

\* an element of the init config: what it is, its text, what running it does,
\* the variables its text exports, the url it reads, the file content it writes
Command(text, effect, url) ==
    [elementType |-> "command", text |-> text, effect |-> effect,
     exports |-> {}, url |-> url, content |-> <<>>]
File(path, content) ==
    [elementType |-> "file", text |-> path, effect |-> "write",
     exports |-> {}, url |-> <<>>, content |-> content]
Service(service) ==
    [elementType |-> "service", text |-> service, effect |-> "enable",
     exports |-> {}, url |-> <<>>, content |-> <<>>]

\* a plausible slip: the package is fetched before the agent is installed
instance_init_configFetchFirst ==
    << Command("aws s3 cp", "fetch",
               s3_url_for_object(stack_artifacts_bucket, rpm_path)),
       Command("curl https://raw.githubusercontent.com/fluent/fluent-bit/master/install.sh | sh",
               "install_agent_repo", <<>>),
       Command("yum update -y", "update", <<>>),
       Command("yum install htop fluent-bit -y", "install_agent", <<>>),
       Command("rpm -i", "install_package", <<>>),
       Command("sed -i 's/ens33/eth0/g' /etc/mercury/mercury.cfg", "patch_interface", <<>>),
       Command("sed -i 's/cpu/1/g' /etc/mercury/mercury.cfg", "patch_cpu", <<>>),
       File("/etc/fluent-bit/fluent-bit.conf", fluent_bit_config),
       File("/etc/fluent-bit/parsers.conf", fluent_bit_parser),
       Service("fluent-bit"),
       Service("mercury") >>

\* CloudFormationInit.from_elements(...), in the order written
instance_init_config ==
    << Command("curl https://raw.githubusercontent.com/fluent/fluent-bit/master/install.sh | sh",
               "install_agent_repo", <<>>),
       Command("yum update -y", "update", <<>>),
       Command("yum install htop fluent-bit -y", "install_agent", <<>>),
       Command("aws s3 cp", "fetch",
               s3_url_for_object(stack_artifacts_bucket, rpm_path)),
       Command("rpm -i", "install_package", <<>>),
       Command("sed -i 's/ens33/eth0/g' /etc/mercury/mercury.cfg", "patch_interface", <<>>),
       Command("sed -i 's/cpu/1/g' /etc/mercury/mercury.cfg", "patch_cpu", <<>>),
       File("/etc/fluent-bit/fluent-bit.conf", fluent_bit_config),
       File("/etc/fluent-bit/parsers.conf", fluent_bit_parser),
       Service("fluent-bit"),
       Service("mercury") >>

IsFile(e) == e.elementType = "file"
IsCommand(e) == e.elementType = "command"
IsService(e) == e.elementType = "service"

\* the config the group is given (init=self.instance_init_config) as cfn-init
\* applies it: the elements are rendered into one section per type, and the
\* sections run files, then commands (by their keys 000, 001, ...), then services
CfnInitOrder(elements) ==
    SelectSeq(elements, IsFile) \o SelectSeq(elements, IsCommand)
        \o SelectSeq(elements, IsService)

Slots == 1..MaxSlots
NoInstance == [status |-> "none", age |-> 0, log |-> <<>>]
Live(inst) == {i \in Slots : inst[i].status # "none"}
Count(inst) == Cardinality(Live(inst))
Max(a, b) == IF a >= b THEN a ELSE b

\* the launches the group still owes for a desired capacity
Owed(inst, d) == Max(0, d - Count(inst))

Ran(log, effect) == \E p \in 1..Len(log) : log[p].effect = effect
Stored(bucket, key) == \E o \in objects[bucket] : o.key = key
Granted(principal, action, resource) ==
    [principal |-> principal, action |-> action, resource |-> resource] \in stack_grants

\* whether an element of the config succeeds on an instance that ran log
Succeeds(e, log) ==
    CASE e.effect = "fetch" ->
            /\ Granted(launch_template.role, "s3:GetObject", e.url[2])
            /\ Stored(e.url[2], SubSeq(e.url, 3, Len(e.url)))
      [] e.effect = "install_package" -> Ran(log, "fetch")
      [] e.effect \in {"patch_interface", "patch_cpu"} -> Ran(log, "install_package")
      [] e.effect = "enable" /\ e.text = "mercury" -> Ran(log, "install_package")
      [] e.effect = "enable" /\ e.text = "fluent-bit" -> Ran(log, "install_agent")
      [] OTHER -> TRUE

\* the group places a launch it owes: a spot request at max_price
Launch ==
    /\ pending > 0
    /\ \E i \in Slots : instances[i].status = "none"
    /\ IF spotAvailable
       THEN LET i == CHOOSE j \in Slots :
                        /\ instances[j].status = "none"
                        /\ \A k \in Slots : instances[k].status = "none" => j <= k
            IN /\ instances' = [instances EXCEPT ![i] =
                                  [status |-> "bootstrapping", age |-> 0, log |-> <<>>]]
               /\ pending' = pending - 1
               /\ launchFailed' = FALSE
       ELSE /\ launchFailed' = TRUE
            /\ UNCHANGED <<instances, pending>>
    /\ UNCHANGED <<region, bucketVars, buildVars, desired, spotAvailable, hoseVars>>

\* cfn-init runs the next element of the config; a failing element ends the
\* run, and a run that reaches the end puts the instance in service
BootstrapStep(i, works) ==
    /\ instances[i].status = "bootstrapping"
    /\ LET order == CfnInitOrder(instance_init_config)
           log == instances[i].log
           e == order[Len(log) + 1]
       IN IF works /\ Succeeds(e, log)
          THEN instances' = [instances EXCEPT ![i] =
                  [@ EXCEPT !.log = Append(log, e),
                            !.status = IF Len(log) + 1 = Len(order)
                                       THEN "inservice" ELSE "bootstrapping"]]
          ELSE instances' = [instances EXCEPT ![i] = [@ EXCEPT !.status = "failed"]]
    /\ UNCHANGED <<region, bucketVars, buildVars, desired, pending, spotAvailable,
                   launchFailed, hoseVars>>

Terminated(is) == [i \in Slots |-> IF i \in is THEN NoInstance ELSE instances[i]]

Replace(is) ==
    /\ instances' = Terminated(is)
    /\ pending' = Owed(Terminated(is), desired)
    /\ UNCHANGED <<region, bucketVars, buildVars, desired, spotAvailable, launchFailed,
                   hoseVars>>

\* no success signal within the wait: the instance is failed and replaced
SignalTimeout(i) ==
    /\ instances[i].status = "failed"
    /\ instances[i].age = 0
    /\ Replace({i})

\* max_instance_lifetime: the group ends an instance at its lifetime, whatever
\* its health, and owes a replacement
LifetimeExpiry(i) ==
    /\ instances[i].status \in {"inservice", "failed"}
    /\ instances[i].age + HoursPerTick > asg.max_instance_lifetime
    /\ Replace({i})

\* update_policy: a rolling update ends an instance and launches its replacement
RollingUpdate(i) ==
    /\ instances[i].status \in {"inservice", "failed"}
    /\ asg.update_policy.kind = "rolling_update"
    /\ Replace({i})

\* the desired capacity is set within [min_capacity, max_capacity]
SetDesired(d) ==
    /\ d \in asg.min_capacity..asg.max_capacity
    /\ d # desired
    /\ LET excess == {i \in Live(instances) :
                        Cardinality({j \in Live(instances) : j <= i}) > d}
       IN /\ instances' = Terminated(excess)
          /\ pending' = Owed(Terminated(excess), d)
    /\ desired' = d
    /\ UNCHANGED <<region, bucketVars, buildVars, spotAvailable, launchFailed, hoseVars>>

SpotChange ==
    /\ spotAvailable' = ~spotAvailable
    /\ UNCHANGED <<region, bucketVars, buildVars, instances, desired, pending,
                   launchFailed, hoseVars>>

\* time passes; a bootstrap is over within the signal wait, and no instance
\* outlives max_instance_lifetime
Tick ==
    /\ Live(instances) # {}
    /\ \A i \in Live(instances) :
          /\ instances[i].status # "bootstrapping"
          /\ instances[i].age + HoursPerTick <= asg.max_instance_lifetime
    /\ instances' = [i \in Slots |->
                       IF i \in Live(instances)
                       THEN [instances[i] EXCEPT !.age = @ + HoursPerTick]
                       ELSE instances[i]]
    /\ UNCHANGED <<region, bucketVars, buildVars, desired, pending, spotAvailable,
                   launchFailed, hoseVars>>

(***************************************************************************)
(* lib/stacks/mercury_stack.py: the delivery stream.  Prefixes and keys    *)
(* are sequences of characters.                                            *)
(***************************************************************************)
\* "year=!{timestamp:yyyy}/month=!{timestamp:MM}/day=!{timestamp:dd}/"
partition ==
    <<"y", "e", "a", "r", "=", "!", "{", "t", "i", "m", "e", "s", "t", "a",
    "m", "p", ":", "y", "y", "y", "y", "}", "/", "m", "o", "n", "t", "h", "=",
    "!", "{", "t", "i", "m", "e", "s", "t", "a", "m", "p", ":", "M", "M", "}",
    "/", "d", "a", "y", "=", "!", "{", "t", "i", "m", "e", "s", "t", "a", "m",
    "p", ":", "d", "d", "}", "/">>

SensorsSlash ==
    <<"s", "e", "n", "s", "o", "r", "s", "/">>

SensorsFailuresSlash ==
    <<"s", "e", "n", "s", "o", "r", "s", "-", "f", "a", "i", "l", "u", "r",
    "e", "s", "/">>

ErrorTypeToken ==
    <<"!", "{", "f", "i", "r", "e", "h", "o", "s", "e", ":", "e", "r", "r",
    "o", "r", "-", "o", "u", "t", "p", "u", "t", "-", "t", "y", "p", "e",
    "}">>

\* a plausible slip: failures are written under the prefix of the data
build_firehose_streamOnePrefix ==
    [delivery_stream_name |-> stream_id,
     destination |->
        [bucket |-> BucketName(datalake_bucket), compression |-> "GZIP",
         data_output_prefix |-> SensorsSlash \o partition,
         error_output_prefix |-> SensorsSlash \o partition,
         buffering_interval |-> 300]]

build_firehose_stream ==
    [delivery_stream_name |-> stream_id,
     destination |->
        [bucket |-> BucketName(datalake_bucket), compression |-> "GZIP",
         data_output_prefix |-> SensorsSlash \o partition,
         error_output_prefix |->
            SensorsFailuresSlash \o ErrorTypeToken \o <<"/">> \o partition,
         buffering_interval |-> 300]]

firehose == build_firehose_stream

\* the days a record may arrive on, as <<yyyy, MM, dd>>
Days ==
    { << <<"2", "0", "2", "4">>, <<"0", "1">>, <<"3", "1">> >>,
      << <<"2", "0", "2", "4">>, <<"0", "2">>, <<"0", "1">> >> }

\* the error output types of a delivery to S3
ErrorTypes ==
    { <<"p", "r", "o", "c", "e", "s", "s", "i", "n", "g", "-", "f", "a", "i", "l", "e", "d">>,
      <<"s", "3", "-", "f", "a", "i", "l", "e", "d">> }

IsPrefix(a, b) == Len(a) <= Len(b) /\ SubSeq(b, 1, Len(a)) = a
Contains(s, t) == \E i \in 1..(Len(s) - Len(t) + 1) : SubSeq(s, i, i + Len(t) - 1) = t

\* the value the stream puts in place of the expression !{ns:name}
TokenValue(token, day, errorType) ==
    CASE token = <<"t", "i", "m", "e", "s", "t", "a", "m", "p", ":", "y", "y", "y", "y">> -> day[1]
      [] token = <<"t", "i", "m", "e", "s", "t", "a", "m", "p", ":", "M", "M">> -> day[2]
      [] token = <<"t", "i", "m", "e", "s", "t", "a", "m", "p", ":", "d", "d">> -> day[3]
      [] token = SubSeq(ErrorTypeToken, 3, Len(ErrorTypeToken) - 1) -> errorType
      [] OTHER -> <<>>

RECURSIVE Expand(_, _, _)
Expand(s, day, errorType) ==
    IF s = <<>> THEN <<>>
    ELSE IF Len(s) >= 3 /\ s[1] = "!" /\ s[2] = "{" /\ \E i \in 3..Len(s) : s[i] = "}"
    THEN LET close == CHOOSE i \in 3..Len(s) :
                          s[i] = "}" /\ \A j \in 3..(i - 1) : s[j] # "}"
         IN TokenValue(SubSeq(s, 3, close - 1), day, errorType)
                \o Expand(SubSeq(s, close + 1, Len(s)), day, errorType)
    ELSE <<s[1]>> \o Expand(Tail(s), day, errorType)

RecordIds == 1..MaxRecords
ObjectName(r) == <<"r", ToString(r)>>

\* a key lies under a prefix when the prefix, evaluated for some day and error
\* type, starts it
Under(prefix, key) ==
    \E day \in Days, errorType \in ErrorTypes :
        IsPrefix(Expand(prefix, day, errorType), key)

\* the forwarder of an instance pushes a record to the stream
PutRecord(r) ==
    /\ records[r] = "unsent"
    /\ Granted(instance_role, "firehose:PutRecord", firehose.delivery_stream_name)
    /\ records' = [records EXCEPT ![r] = "buffered"]
    /\ UNCHANGED <<region, bucketVars, buildVars, fleetVars, datalake>>

\* the buffer is flushed: the record is written under the data prefix
Deliver(r, day) ==
    /\ records[r] = "buffered"
    /\ records' = [records EXCEPT ![r] = "delivered"]
    /\ datalake' = datalake \cup
          {[record |-> r,
            key |-> Expand(firehose.destination.data_output_prefix, day, <<>>)
                        \o ObjectName(r)]}
    /\ UNCHANGED <<region, bucketVars, buildVars, fleetVars>>

\* the delivery fails: the record is written under the error prefix
DeliverFail(r, day, errorType) ==
    /\ records[r] = "buffered"
    /\ records' = [records EXCEPT ![r] = "failed"]
    /\ datalake' = datalake \cup
          {[record |-> r,
            key |-> Expand(firehose.destination.error_output_prefix, day, errorType)
                        \o ObjectName(r)]}
    /\ UNCHANGED <<region, bucketVars, buildVars, fleetVars>>

(***************************************************************************)
(* A further caller of SecureBucket.                                       *)
(***************************************************************************)
Opt(k) == KwargValues(k) \cup {Absent}
Kwargs(c) == [k \in {j \in DOMAIN c : c[j] # Absent} |-> c[k]]

CallSecureBucket(bucket_id, bucket_name, kwargs) ==
    /\ \A b \in buckets : b.id # bucket_id
    /\ LET b == SecureBucket(bucket_id, bucket_name, kwargs)
       IN /\ buckets' = IF b.ok THEN buckets \cup {b} ELSE buckets
          /\ lastCall' = [id |-> bucket_id, name |-> bucket_name,
                          kwargs |-> kwargs, ok |-> b.ok]
    /\ UNCHANGED <<region, buildVars, fleetVars, hoseVars>>

(***************************************************************************)
(* app.py: both stacks deployed.                                           *)
(***************************************************************************)
Init ==
    /\ region \in Regions
    /\ buckets = AppBuckets
    /\ lastCall = [id |-> None, name |-> None, kwargs |-> <<>>, ok |-> TRUE]
    /\ objects = [b \in BucketNames |-> {}]
    /\ ssmParameter = ssm_parameter.string_value
    /\ runs = [r \in RunIds |-> NewRun]
    /\ builds = {}
    /\ instances = [i \in Slots |-> NoInstance]
    /\ desired = asg.min_capacity
    /\ pending = asg.min_capacity
    /\ spotAvailable = TRUE
    /\ launchFailed = FALSE
    /\ records = [r \in RecordIds |-> "unsent"]
    /\ datalake = {}

NextBucket ==
    \E id \in NewBucketIds, nm \in {None, "custom-name"},
       l \in Opt("lifecycle_rules"), p \in Opt("block_public_access"),
       e \in Opt("encryption"), s \in Opt("enforce_ssl"),
       v \in Opt("versioned"), x \in Opt("removal_policy") :
        CallSecureBucket(id, nm,
            Kwargs([lifecycle_rules |-> l, block_public_access |-> p,
                    encryption |-> e, enforce_ssl |-> s, versioned |-> v,
                    removal_policy |-> x]))

NextStandalone ==
    \/ \E v \in Versions : StartBuild(v)
    \/ \E b \in builds : BuildSucceedStandalone(b)
    \/ \E b \in builds : BuildFailStandalone(b)

NextPipeline ==
    \/ \E r \in RunIds : StartExecution(r)
    \/ \E r \in RunIds, v \in Versions : RunSource(r, v)
    \/ \E r \in RunIds : RunBuildStart(r)
    \/ \E b \in builds : BuildSucceedPipeline(b)
    \/ \E b \in builds : BuildFailPipeline(b)
    \/ \E r \in RunIds : RunDeploy(r)

NextBootstrap ==
    \/ Launch
    \/ \E i \in Slots, works \in BOOLEAN : BootstrapStep(i, works)
    \/ \E i \in Slots : SignalTimeout(i)

NextGroup ==
    \/ \E i \in Slots : LifetimeExpiry(i)
    \/ \E i \in Slots : RollingUpdate(i)
    \/ \E d \in 1..MaxSlots : SetDesired(d)
    \/ SpotChange
    \/ Tick

NextFirehose ==
    \/ \E r \in RecordIds : PutRecord(r)
    \/ \E r \in RecordIds, day \in Days : Deliver(r, day)
    \/ \E r \in RecordIds, day \in Days, errorType \in ErrorTypes :
          DeliverFail(r, day, errorType)

NextBuild == NextPipeline \/ NextStandalone
NextBoot == NextBootstrap \/ NextStandalone
NextFleet == NextBootstrap \/ NextGroup \/ NextStandalone

Next == NextBucket \/ NextPipeline \/ NextStandalone \/ NextBootstrap \/ NextGroup
            \/ NextFirehose

Spec == Init /\ [][Next]_vars
SpecBucket == Init /\ [][NextBucket]_vars
SpecBuild == Init /\ [][NextBuild]_vars
SpecBoot == Init /\ [][NextBoot]_vars
SpecFleet == Init /\ [][NextFleet]_vars
SpecFirehose == Init /\ [][NextFirehose]_vars

(***************************************************************************)
(* Properties.                                                             *)
(***************************************************************************)
Hardened(b) ==
    /\ b.props.block_public_access = "BLOCK_ALL"
    /\ b.props.encryption = "S3_MANAGED"
    /\ b.props.enforce_ssl = "True"
    /\ b.props.versioned = "True"
    /\ b.props.removal_policy = "RETAIN"

\* C1: every bucket defined (the artifact, package and datalake buckets, and
\* any bucket a further caller of SecureBucket defines) blocks all public
\* access, is encrypted with S3-managed keys, enforces SSL, is versioned and is
\* retained; a call that passes one of these settings defines no bucket.
C1_EveryBucketHardened ==
    /\ AppBuckets \subseteq buckets
    /\ {"mercury-codebuild-artifacts", "mercury-package-bucket",
        "mercury-collection-datalake"} \subseteq {BucketName(b) : b \in buckets}
    /\ \A b \in buckets : b.ok /\ Hardened(b)
    /\ lastCall.ok =>
          DOMAIN lastCall.kwargs \cap
             {"block_public_access", "encryption", "enforce_ssl", "versioned",
              "removal_policy"} = {}

C1_WeakeningRefused ==
    /\ ~lastCall.ok
    /\ DOMAIN lastCall.kwargs = {"versioned"}
    /\ lastCall.kwargs["versioned"] = "False"
    /\ \A b \in buckets : b.id # lastCall.id

\* C2: the project's concurrent build limit is 1 and at most one build of the
\* project is in flight, whatever starts builds (pipeline executions, StartBuild).
C2_OneBuildInFlight ==
    /\ project.concurrent_build_limit = 1
    /\ Cardinality(builds) <= 1

C2_TriggerWhileBuilding ==
    /\ builds # {}
    /\ \E r \in RunIds : runs[r].status = "Failed" /\ runs[r].reason = "throttled"

Has(content, line) == \E n \in 1..Len(content) : content[n] = line

\* C3 as stated: on every instance, a line exporting REGION and a line
\* exporting FIREHOSE have run before the command that fetches the package.
C3_ExportsBeforeFetch ==
    \A i \in Slots : \A p \in 1..Len(instances[i].log) :
        instances[i].log[p].effect = "fetch" =>
            /\ \E q \in 1..(p - 1) : "REGION" \in instances[i].log[q].exports
            /\ \E q \in 1..(p - 1) : "FIREHOSE" \in instances[i].log[q].exports

\* C3 amended: no element of the bootstrap exports a variable; the region and
\* the delivery-stream name are written as the region and delivery_stream lines
\* of /etc/fluent-bit/fluent-bit.conf, and that file is written before the
\* command that fetches the package runs.
C3_ForwarderConfigBeforeFetch ==
    \A i \in Slots : \A p \in 1..Len(instances[i].log) :
        /\ instances[i].log[p].exports = {}
        /\ instances[i].log[p].effect = "fetch" =>
              \E q \in 1..(p - 1) :
                 /\ instances[i].log[q].elementType = "file"
                 /\ instances[i].log[q].text = "/etc/fluent-bit/fluent-bit.conf"
                 /\ Has(instances[i].log[q].content, <<"region", region>>)
                 /\ Has(instances[i].log[q].content,
                        <<"delivery_stream", "MercurySensorStream">>)

C3_FetchRan ==
    /\ region = "us-east-1"
    /\ \E i \in Slots : Ran(instances[i].log, "fetch")

AgentInstalled(e) == e.effect = "install_agent"
Fetched(e) == e.effect = "fetch"
PackageInstalled(e) == e.effect = "install_package"
InterfacePatched(e) == e.effect = "patch_interface"
Enabled(e) == e.elementType = "service"

\* every element of log that is a B comes after an element that is an A
Before(log, A(_), B(_)) ==
    \A p \in 1..Len(log) : B(log[p]) => \E q \in 1..(p - 1) : A(log[q])

\* C4: on every instance the agent is installed before the package is fetched,
\* the package is fetched before it is installed, installed before its
\* configuration is patched to the interface, and patched before either service
\* is enabled; an instance in service has run all five steps and has both
\* services enabled.
C4_BootstrapInOrder ==
    \A i \in Slots :
        LET log == instances[i].log
        IN /\ Before(log, AgentInstalled, Fetched)
           /\ Before(log, Fetched, PackageInstalled)
           /\ Before(log, PackageInstalled, InterfacePatched)
           /\ Before(log, InterfacePatched, Enabled)
           /\ instances[i].status = "inservice" =>
                 /\ \E p \in 1..Len(log) : InterfacePatched(log[p])
                 /\ {log[p].text : p \in {q \in 1..Len(log) : Enabled(log[q])}}
                       = {"fluent-bit", "mercury"}

C4_InstanceInService ==
    \E i \in Slots : instances[i].status = "inservice"

PackageObjects == objects["mercury-package-bucket"]

\* C5: an execution completes its stages in the order Source, Build, Deploy;
\* Build reads only the source artifact and Deploy only the build artifact; an
\* execution that failed has published nothing to the package bucket, has no
\* build in flight and started at most one build; what an execution publishes
\* is published after its Build stage.
C5_StagesInOrder ==
    \A r \in RunIds :
        /\ IsPrefix(runs[r].done, <<"Source", "Build", "Deploy">>)
        /\ runs[r].consumed \subseteq
              {<<"Build", "SourceArtifact">>, <<"Deploy", "MercuryBuildArtifact">>}
        /\ Len(runs[r].done) >= 2 => <<"Build", "SourceArtifact">> \in runs[r].consumed
        /\ Len(runs[r].done) = 3 =>
              <<"Deploy", "MercuryBuildArtifact">> \in runs[r].consumed
        /\ runs[r].attempts <= 1
        /\ runs[r].status = "Failed" =>
              /\ \A o \in PackageObjects : o.by # r
              /\ \A b \in builds : b.run # r
        /\ \A o \in PackageObjects :
              o.by = r => /\ Len(runs[r].done) = 3
                          /\ o.key = <<RpmFile(runs[r].version)>>

C5_OneFailedOneStored ==
    /\ \E r \in RunIds : runs[r].status = "Failed" /\ runs[r].reason = "build failed"
    /\ \E r \in RunIds : runs[r].status = "Succeeded"
                           /\ \E o \in PackageObjects : o.by = r

\* C6: a record the stream accepted is buffered or is stored once in the
\* datalake, under the data prefix and not the error prefix when delivered,
\* under the error prefix and not the data prefix when the delivery failed;
\* neither prefix starts the other, and the error prefix holds the error type.
C6_OnePrefixPerRecord ==
    LET data == firehose.destination.data_output_prefix
        error == firehose.destination.error_output_prefix
    IN /\ ~IsPrefix(data, error)
       /\ ~IsPrefix(error, data)
       /\ Contains(error, ErrorTypeToken)
       /\ \A r \in RecordIds :
             LET written == {o \in datalake : o.record = r}
             IN /\ records[r] \in {"unsent", "buffered"} => written = {}
                /\ records[r] \in {"delivered", "failed"} => Cardinality(written) = 1
                /\ \A o \in written :
                      /\ Under(data, o.key) <=> records[r] = "delivered"
                      /\ Under(error, o.key) <=> records[r] = "failed"

C6_BothPrefixesUsed ==
    /\ \E r \in RecordIds : records[r] = "delivered"
    /\ \E r \in RecordIds : records[r] = "failed"

\* C7: the group's maximum instance lifetime is at most 24 hours and no
\* instance, in service or failed, is older than 24 hours.
C7_NoInstanceOlderThanADay ==
    /\ asg.max_instance_lifetime <= 24
    /\ \A i \in Slots : instances[i].age <= 24

C7_BothAtTheirLifetime ==
    \E i, j \in Slots :
        /\ instances[i].status = "inservice"
        /\ instances[j].status = "failed"
        /\ instances[i].age + HoursPerTick > 24
        /\ instances[j].age + HoursPerTick > 24

\* C8: the group never has more than 2 instances; it has fewer than 1 only
\* while spot capacity is unavailable or a launch it owes is pending; whatever
\* spot requests failed, the instances and the launches owed add up to the
\* desired capacity, which stays between 1 and 2.
C8_WithinCapacity ==
    /\ Count(instances) <= 2
    /\ Count(instances) < 1 => ~spotAvailable \/ pending > 0
    /\ desired \in 1..2
    /\ Count(instances) + pending = desired

C8_UnderCapacityOnSpot ==
    /\ Count(instances) = 0
    /\ ~spotAvailable
    /\ launchFailed
    /\ desired = 2

Completed(r, stage) == \E n \in 1..Len(runs[r].done) : runs[r].done[n] = stage

\* C9 as stated: once the Build stage of an execution has run, the parameter
\* holds the location of that execution's build artifact.
C9_ParameterHoldsArtifactLocation ==
    \A r \in RunIds :
        Completed(r, "Build") => ssmParameter = ArtifactLocation(r, build_output)

FetchUrl ==
    LET order == CfnInitOrder(instance_init_config)
    IN order[CHOOSE n \in 1..Len(order) : order[n].effect = "fetch"].url

\* C10 as stated: the bucket the bootstrap fetches from is the bucket the Deploy
\* stage publishes to and the bucket the instance role may read, and after a
\* successful execution the object fetched is stored in it.
C10_FetchesWhatDeployPublished ==
    \A r \in RunIds :
        runs[r].status = "Succeeded" =>
            /\ FetchUrl[2] = s3_deploy_action.bucket
            /\ Granted(instance_role, "s3:GetObject", FetchUrl[2])
            /\ Stored(FetchUrl[2], SubSeq(FetchUrl, 3, Len(FetchUrl)))
====
